---- MODULE Spec2Model ----
(***************************************************************************)
(* State-machine model of mise-tasks-mcp: the input validators             *)
(* (utils/validator.py), the command executor run_mise_command             *)
(* (utils/command.py) and the tool handlers (server.py).                   *)
(*                                                                         *)
(* Text is a sequence of fragments.  Text that comes from a caller or from *)
(* the child process is a sequence of one-character strings; a literal of  *)
(* the source ("env", "Invalid task name: ") is a one-fragment sequence.   *)
(* Concatenation is \o.  Python's None is the value NONE.                  *)
(***************************************************************************)
EXTENDS Integers, Sequences, FiniteSets, TLC

\* ------------------------------------------------------------------ bounds
\* Longest identifier (key / task) a caller passes.
MaxLen == 2

\* ------------------------------------------------------------- text basics
NONE == <<"None">>

\* Python truthiness of an Optional[str]: None and "" are falsy.
Truthy(v) == v # NONE /\ v # <<>>

Lit(s) == <<s>>

Lower == {"a","b","c","d","e","f","g","h","i","j","k","l","m",
          "n","o","p","q","r","s","t","u","v","w","x","y","z"}
Upper == {"A","B","C","D","E","F","G","H","I","J","K","L","M",
          "N","O","P","Q","R","S","T","U","V","W","X","Y","Z"}
Digits == {"0","1","2","3","4","5","6","7","8","9"}

\* [a-zA-Z_]
EnvHeadClass == Lower \cup Upper \cup {"_"}
\* [a-zA-Z0-9_]
EnvTailClass == Lower \cup Upper \cup Digits \cup {"_"}
\* [a-zA-Z0-9_\-:\.]
TaskClass == Lower \cup Upper \cup Digits \cup {"_", "-", ":", "."}
\* [a-zA-Z0-9_\-]
ConfigClass == Lower \cup Upper \cup Digits \cup {"_", "-"}

AllIn(s, class) == \A i \in 1..Len(s) : s[i] \in class

Front(s) == SubSeq(s, 1, Len(s) - 1)

\* The positions at which the regex anchor `$` can match when the pattern
\* must consume a prefix of s: at the end of s, or just before a final
\* newline (re.match without re.MULTILINE).
DollarEnds(s) ==
  {Len(s)} \cup (IF Len(s) > 0 /\ s[Len(s)] = "\n" THEN {Len(s) - 1} ELSE {})

\* ------------------------------------------------------------- validators
\* ^[a-zA-Z_][a-zA-Z0-9_]*$ consuming exactly s
EnvPatternConsumes(s) ==
  /\ Len(s) >= 1
  /\ s[1] \in EnvHeadClass
  /\ AllIn(Tail(s), EnvTailClass)

validate_env_var_name(name) ==
  IF ~Truthy(name) THEN FALSE
  ELSE \E e \in DollarEnds(name) : EnvPatternConsumes(SubSeq(name, 1, e))

\* ^[a-zA-Z0-9_\-:\.]+$ consuming exactly s
TaskPatternConsumes(s) == Len(s) >= 1 /\ AllIn(s, TaskClass)

validate_task_name(name) ==
  IF ~Truthy(name) THEN FALSE
  ELSE \E e \in DollarEnds(name) : TaskPatternConsumes(SubSeq(name, 1, e))

\* ^[a-zA-Z0-9_\-]+(\.?[a-zA-Z0-9_\-]+)*$ consuming exactly s: the matcher is
\* either inside a segment (inSeg) or has just consumed the optional dot.
RECURSIVE ConfigPatternFrom(_, _, _)
ConfigPatternFrom(s, i, inSeg) ==
  IF i > Len(s) THEN inSeg
  ELSE IF s[i] \in ConfigClass THEN ConfigPatternFrom(s, i + 1, TRUE)
  ELSE IF s[i] = "." /\ inSeg THEN ConfigPatternFrom(s, i + 1, FALSE)
  ELSE FALSE

ConfigPatternConsumes(s) == ConfigPatternFrom(s, 1, FALSE)

validate_config_key(key) ==
  IF ~Truthy(key) THEN FALSE
  ELSE \E e \in DollarEnds(key) : ConfigPatternConsumes(SubSeq(key, 1, e))

\* ------------------------------------------------------- text operations
\* Characters str.strip() and str.split() treat as whitespace.
Whitespace == {" ", "\t", "\n", "\r", "\f"}

RECURSIVE LStrip(_)
LStrip(s) ==
  IF s # <<>> /\ Head(s) \in Whitespace THEN LStrip(Tail(s)) ELSE s

RECURSIVE RStrip(_)
RStrip(s) ==
  IF s # <<>> /\ s[Len(s)] \in Whitespace THEN RStrip(Front(s)) ELSE s

\* str.strip()
Strip(s) == RStrip(LStrip(s))

\* Index of the first occurrence of a character of `seps` in s, 0 if none.
RECURSIVE FindFrom(_, _, _)
FindFrom(s, seps, i) ==
  IF i > Len(s) THEN 0
  ELSE IF s[i] \in seps THEN i
  ELSE FindFrom(s, seps, i + 1)

Find(s, seps) == FindFrom(s, seps, 1)

\* str.split(sep): every piece, empty pieces included.
RECURSIVE Split(_, _)
Split(s, sep) ==
  LET i == Find(s, {sep})
  IN  IF i = 0 THEN <<s>>
      ELSE <<SubSeq(s, 1, i - 1)>> \o Split(SubSeq(s, i + 1, Len(s)), sep)

\* str.split(sep, 1)
SplitFirst(s, sep) ==
  LET i == Find(s, {sep})
  IN  IF i = 0 THEN <<s>>
      ELSE <<SubSeq(s, 1, i - 1), SubSeq(s, i + 1, Len(s))>>

\* str.split(): pieces between runs of whitespace, no empty piece.
RECURSIVE SplitWhitespace(_)
SplitWhitespace(s) ==
  LET t == LStrip(s)
      i == Find(t, Whitespace)
  IN  IF t = <<>> THEN <<>>
      ELSE IF i = 0 THEN <<t>>
      ELSE <<SubSeq(t, 1, i - 1)>> \o SplitWhitespace(SubSeq(t, i, Len(t)))

\* str.split(None, 1): the first piece, and the rest with its leading
\* whitespace removed (trailing whitespace is kept).
SplitWhitespaceFirst(s) ==
  LET t == LStrip(s)
      i == Find(t, Whitespace)
      rest == IF i = 0 THEN <<>> ELSE LStrip(SubSeq(t, i, Len(t)))
  IN  IF t = <<>> THEN <<>>
      ELSE IF rest = <<>> THEN <<SubSeq(t, 1, IF i = 0 THEN Len(t) ELSE i - 1)>>
      ELSE <<SubSeq(t, 1, i - 1), rest>>

\* f"{timeout}" of the float timeouts the handlers pass.
FloatStr(t) ==
  CASE t = 30 -> "30.0"
    [] t = 60 -> "60.0"
    [] t = 120 -> "120.0"

\* dict.update on mappings: keys of `b` replace those of `a`.
Update(a, b) ==
  [k \in DOMAIN a \cup DOMAIN b |-> IF k \in DOMAIN b THEN b[k] ELSE a[k]]

\* --------------------------------------------------------- CommandResult
CommandResult(success, output, error, return_code) ==
  [success |-> success, output |-> output, error |-> error,
   return_code |-> return_code]

\* The value of `result` while no CommandResult has been returned.
NoResult == [success |-> FALSE, output |-> <<>>, error |-> <<>>,
             return_code |-> 0]

DefaultTimeout == 30
TaskRunTimeout == 60
SelfUpdateTimeout == 120

\* ---------------------------------------------- handlers: argument lists
\* Mutant of set_env_args: the value is passed inside single quotes.
set_env_args_quoted_value(key, value, file) ==
  <<Lit("env"), Lit("set")>>
    \o (IF Truthy(file) THEN <<Lit("--file"), file>> ELSE <<>>)
    \o <<key, <<"'">> \o value \o <<"'">>>>

set_env_args(key, value, file) ==
  <<Lit("env"), Lit("set")>>
    \o (IF Truthy(file) THEN <<Lit("--file"), file>> ELSE <<>>)
    \o <<key, value>>

get_env_args(key) ==
  IF Truthy(key) THEN <<Lit("env"), Lit("get"), key>> ELSE <<Lit("env")>>

unset_env_args(key, file) ==
  <<Lit("env"), Lit("unset")>>
    \o (IF Truthy(file) THEN <<Lit("--file"), file>> ELSE <<>>)
    \o <<key>>

\* Mutant of task_run_args: the task name follows the argument tokens.
task_run_args_task_last(task, args, cd) ==
  <<Lit("tasks"), Lit("run")>>
    \o (IF Truthy(cd) THEN <<Lit("--cd"), cd>> ELSE <<>>)
    \o (IF Truthy(args) THEN SplitWhitespace(args) ELSE <<>>)
    \o <<task>>

task_run_args(task, args, cd) ==
  <<Lit("tasks"), Lit("run")>>
    \o (IF Truthy(cd) THEN <<Lit("--cd"), cd>> ELSE <<>>)
    \o <<task>>
    \o (IF Truthy(args) THEN SplitWhitespace(args) ELSE <<>>)

task_ls_args(hidden) ==
  <<Lit("tasks"), Lit("ls")>> \o (IF hidden THEN <<Lit("--hidden")>> ELSE <<>>)

task_info_args(task) == <<Lit("tasks"), Lit("info"), task>>

task_edit_args(task) == <<Lit("tasks"), Lit("edit"), task>>

\* env = {}; if editor: env["EDITOR"] = editor; passed as `env if env else None`
\* An Optional[dict] is a record: `none` tells None from a mapping.
NoEnv == [none |-> TRUE, vars |-> <<>>]

task_edit_env(editor) ==
  IF Truthy(editor)
  THEN [none |-> FALSE, vars |-> [k \in {"EDITOR"} |-> editor]]
  ELSE NoEnv

task_deps_args(task) == <<Lit("tasks"), Lit("deps"), task>>

get_config_args(key) ==
  <<Lit("config"), Lit("get")>> \o (IF Truthy(key) THEN <<key>> ELSE <<>>)

current_config_args == <<Lit("config"), Lit("ls")>>

self_update_args(version, force) ==
  <<Lit("self-update")>>
    \o (IF Truthy(version) THEN <<version>> ELSE <<>>)
    \o (IF force THEN <<Lit("--force")>> ELSE <<>>)

fmt_config_args(path) ==
  <<Lit("fmt")>> \o (IF Truthy(path) THEN <<path>> ELSE <<>>)

\* The validation guard each handler runs first; TRUE means the handler
\* short-circuits with the error response.
ValidationFails(handler, req) ==
  CASE handler \in {"set_env", "unset_env"} -> ~validate_env_var_name(req.key)
    [] handler = "get_env" -> Truthy(req.key) /\ ~validate_env_var_name(req.key)
    [] handler \in {"task_run", "task_info", "task_edit", "task_deps"} ->
         ~validate_task_name(req.task)
    [] handler = "get_config" -> Truthy(req.key) /\ ~validate_config_key(req.key)
    [] OTHER -> FALSE

ValidationError(handler, req) ==
  CASE handler \in {"set_env", "get_env", "unset_env"} ->
         [success |-> FALSE,
          error |-> Lit("Invalid environment variable name: ") \o req.key]
    [] handler \in {"task_run", "task_info", "task_edit", "task_deps"} ->
         [success |-> FALSE, error |-> Lit("Invalid task name: ") \o req.task]
    [] handler = "get_config" ->
         [success |-> FALSE,
          error |-> Lit("Invalid configuration key: ") \o req.key]

HandlerArgs(handler, req) ==
  CASE handler = "set_env" -> set_env_args(req.key, req.value, req.file)
    [] handler = "get_env" -> get_env_args(req.key)
    [] handler = "unset_env" -> unset_env_args(req.key, req.file)
    [] handler = "task_run" -> task_run_args(req.task, req.args, req.cd)
    [] handler = "task_ls" -> task_ls_args(req.hidden)
    [] handler = "task_info" -> task_info_args(req.task)
    [] handler = "task_edit" -> task_edit_args(req.task)
    [] handler = "task_deps" -> task_deps_args(req.task)
    [] handler = "get_config" -> get_config_args(req.key)
    [] handler = "current_config" -> current_config_args
    [] handler = "self_update" -> self_update_args(req.version, req.force)
    [] handler = "fmt_config" -> fmt_config_args(req.path)

\* Mutant of HandlerTimeout: no handler overrides the default timeout.
HandlerTimeoutAllDefault(handler) == DefaultTimeout

HandlerTimeout(handler) ==
  CASE handler = "task_run" -> TaskRunTimeout
    [] handler = "self_update" -> SelfUpdateTimeout
    [] OTHER -> DefaultTimeout

HandlerEnv(handler, req) ==
  IF handler = "task_edit" THEN task_edit_env(req.editor) ELSE NoEnv

\* ------------------------------------------------ handlers: reshaping
\* Lines of get_env(): `if '=' in line: k, v = line.split('=', 1)`.
RECURSIVE ParseEnvLines(_, _)
ParseEnvLines(lines, env_vars) ==
  IF lines = <<>> THEN env_vars
  ELSE LET line == Head(lines)
           kv == SplitFirst(line, "=")
       IN  ParseEnvLines(Tail(lines),
             IF Find(line, {"="}) # 0
             THEN Update(env_vars, [k \in {kv[1]} |-> kv[2]])
             ELSE env_vars)

\* Lines of task_ls(): `parts = line.split(None, 1)`.
RECURSIVE ParseTaskLines(_)
ParseTaskLines(lines) ==
  IF lines = <<>> THEN <<>>
  ELSE LET line == Head(lines)
           parts == SplitWhitespaceFirst(line)
       IN  (IF Strip(line) # <<>> /\ parts # <<>>
            THEN <<IF Len(parts) > 1
                   THEN [name |-> parts[1], description |-> parts[2]]
                   ELSE [name |-> parts[1]]>>
            ELSE <<>>)
           \o ParseTaskLines(Tail(lines))

\* Lines of task_deps() and current_config(): the stripped non-blank lines.
RECURSIVE StrippedLines(_)
StrippedLines(lines) ==
  IF lines = <<>> THEN <<>>
  ELSE (IF Strip(Head(lines)) # <<>> THEN <<Strip(Head(lines))>> ELSE <<>>)
       \o StrippedLines(Tail(lines))

UpperSeq == <<"A","B","C","D","E","F","G","H","I","J","K","L","M",
              "N","O","P","Q","R","S","T","U","V","W","X","Y","Z">>
LowerSeq == <<"a","b","c","d","e","f","g","h","i","j","k","l","m",
              "n","o","p","q","r","s","t","u","v","w","x","y","z">>

\* key.strip().lower().replace(' ', '_')
NormalizeKey(key) ==
  LET t == Strip(key)
  IN  [i \in 1..Len(t) |->
         IF t[i] \in Upper
         THEN LowerSeq[CHOOSE j \in 1..26 : UpperSeq[j] = t[i]]
         ELSE IF t[i] = " " THEN "_" ELSE t[i]]

NameKey == <<"n","a","m","e">>
RawOutputKey == <<"r","a","w","_","o","u","t","p","u","t">>

\* Lines of task_info(): `key, value = line.split(':', 1)`.
RECURSIVE ParseInfoLines(_, _)
ParseInfoLines(lines, info) ==
  IF lines = <<>> THEN info
  ELSE LET line == Head(lines)
           kv == SplitFirst(line, ":")
       IN  ParseInfoLines(Tail(lines),
             IF Find(line, {":"}) # 0
             THEN Update(info, [k \in {NormalizeKey(kv[1])} |-> Strip(kv[2])])
             ELSE info)

\* json.loads on text made of whitespace, digits, brackets, braces and
\* commas (any other character is one no JSON value of this subset holds):
\* the position after the value that starts at i, or 0 when none does.
JsonWhitespace == {" ", "\t", "\n", "\r"}

RECURSIVE JsonSkip(_, _)
JsonSkip(s, i) ==
  IF i <= Len(s) /\ s[i] \in JsonWhitespace THEN JsonSkip(s, i + 1) ELSE i

RECURSIVE JsonDigits(_, _)
JsonDigits(s, i) ==
  IF i <= Len(s) /\ s[i] \in Digits THEN JsonDigits(s, i + 1) ELSE i

RECURSIVE JsonValue(_, _)
RECURSIVE JsonElements(_, _)
JsonValue(s, i) ==
  IF i > Len(s) THEN 0
  ELSE IF s[i] = "0" THEN i + 1
  ELSE IF s[i] \in Digits THEN JsonDigits(s, i)
  ELSE IF s[i] = "{" THEN
    LET j == JsonSkip(s, i + 1)
    IN  IF j <= Len(s) /\ s[j] = "}" THEN j + 1 ELSE 0
  ELSE IF s[i] = "[" THEN
    LET j == JsonSkip(s, i + 1)
    IN  IF j <= Len(s) /\ s[j] = "]" THEN j + 1 ELSE JsonElements(s, j)
  ELSE 0

JsonElements(s, i) ==
  LET e == JsonValue(s, i)
      j == JsonSkip(s, e)
  IN  IF e = 0 \/ j > Len(s) THEN 0
      ELSE IF s[j] = "]" THEN j + 1
      ELSE IF s[j] = "," THEN JsonElements(s, JsonSkip(s, j + 1))
      ELSE 0

\* json.loads(text): ok, or JSONDecodeError; the parsed value is kept as
\* the text without its insignificant whitespace.
JsonLoads(s) ==
  LET e == JsonValue(s, JsonSkip(s, 1))
      ok == e # 0 /\ JsonSkip(s, e) = Len(s) + 1
  IN  [ok |-> ok,
       value |-> IF ok THEN SelectSeq(s, LAMBDA ch : ch \notin JsonWhitespace)
                 ELSE <<>>]

\* Mutant of set_env_response: `error` is the child's stderr on success too.
set_env_response_stderr_always(req, result) ==
  [success |-> result.success, key |-> req.key, value |-> req.value,
   output |-> IF result.success THEN result.output ELSE NONE,
   error |-> result.error]

\* The response each handler builds from the CommandResult it awaited.
set_env_response(req, result) ==
  [success |-> result.success, key |-> req.key, value |-> req.value,
   output |-> IF result.success THEN result.output ELSE NONE,
   error |-> IF ~result.success THEN result.error ELSE NONE]

\* Mutant of ErrorResponse: the failure mapping lacks `success`.
ErrorResponseWithoutSuccess(result) == [error |-> result.error]

ErrorResponse(result) == [success |-> FALSE, error |-> result.error]

\* Mutant of get_env_response: the first line of a key gives its value.
get_env_response_first_wins(req, result) ==
  IF result.success
  THEN IF Truthy(req.key)
       THEN [success |-> TRUE, key |-> req.key, value |-> result.output]
       ELSE LET lines == Split(result.output, "\n")
            IN  [success |-> TRUE,
                 variables |->
                   ParseEnvLines([i \in 1..Len(lines) |-> lines[Len(lines) + 1 - i]],
                                 <<>>)]
  ELSE ErrorResponse(result)

\* Mutant of get_env_response: a single value is cut at its first newline.
get_env_response_first_line(req, result) ==
  IF result.success
  THEN IF Truthy(req.key)
       THEN [success |-> TRUE, key |-> req.key,
             value |-> IF result.output = <<>> THEN <<>>
                       ELSE Split(result.output, "\n")[1]]
       ELSE [success |-> TRUE,
             variables |-> ParseEnvLines(Split(result.output, "\n"), <<>>)]
  ELSE ErrorResponse(result)

get_env_response(req, result) ==
  IF result.success
  THEN IF Truthy(req.key)
       THEN [success |-> TRUE, key |-> req.key, value |-> result.output]
       ELSE [success |-> TRUE,
             variables |-> ParseEnvLines(Split(result.output, "\n"), <<>>)]
  ELSE ErrorResponse(result)

unset_env_response(req, result) ==
  [success |-> result.success, key |-> req.key,
   output |-> IF result.success THEN result.output ELSE NONE,
   error |-> IF ~result.success THEN result.error ELSE NONE]

\* Mutant of task_run_response: a failure carries a fixed error text.
task_run_response_fixed_error(req, result) ==
  [success |-> result.success, task |-> req.task, output |-> result.output,
   error |-> IF ~result.success THEN Lit("Task failed") ELSE NONE,
   return_code |-> result.return_code]

task_run_response(req, result) ==
  [success |-> result.success, task |-> req.task, output |-> result.output,
   error |-> IF ~result.success THEN result.error ELSE NONE,
   return_code |-> result.return_code]

\* Mutant of task_ls_response: count is the number of output lines.
task_ls_response_counts_lines(req, result) ==
  IF result.success
  THEN [success |-> TRUE,
        tasks |-> ParseTaskLines(Split(result.output, "\n")),
        count |-> Len(Split(result.output, "\n"))]
  ELSE ErrorResponse(result)

task_ls_response(req, result) ==
  IF result.success
  THEN LET tasks == ParseTaskLines(Split(result.output, "\n"))
       IN  [success |-> TRUE, tasks |-> tasks, count |-> Len(tasks)]
  ELSE ErrorResponse(result)

task_info_response(req, result) ==
  IF result.success
  THEN [success |-> TRUE,
        task_info |->
          ParseInfoLines(Split(result.output, "\n"),
            [k \in {NameKey, RawOutputKey} |->
               IF k = NameKey THEN req.task ELSE result.output])]
  ELSE ErrorResponse(result)

task_edit_response(req, result) ==
  [success |-> result.success, task |-> req.task,
   message |-> IF result.success THEN Lit("Task opened for editing") ELSE NONE,
   error |-> IF ~result.success THEN result.error ELSE NONE]

\* Mutant of task_deps_response: the non-blank lines are kept untrimmed.
task_deps_response_untrimmed(req, result) ==
  IF result.success
  THEN LET deps == SelectSeq(Split(result.output, "\n"),
                             LAMBDA line : Strip(line) # <<>>)
       IN  [success |-> TRUE, task |-> req.task, dependencies |-> deps,
            count |-> Len(deps)]
  ELSE ErrorResponse(result)

task_deps_response(req, result) ==
  IF result.success
  THEN LET deps == StrippedLines(Split(result.output, "\n"))
       IN  [success |-> TRUE, task |-> req.task, dependencies |-> deps,
            count |-> Len(deps)]
  ELSE ErrorResponse(result)

\* Mutant of get_config_response: output that is no JSON fails the call.
get_config_response_parse_failure_fails(req, result) ==
  IF result.success
  THEN IF Truthy(req.key)
       THEN [success |-> TRUE, key |-> req.key, value |-> result.output]
       ELSE LET config == JsonLoads(result.output)
            IN  IF config.ok
                THEN [success |-> TRUE, config |-> config.value]
                ELSE [success |-> FALSE, error |-> result.output]
  ELSE ErrorResponse(result)

get_config_response(req, result) ==
  IF result.success
  THEN IF Truthy(req.key)
       THEN [success |-> TRUE, key |-> req.key, value |-> result.output]
       ELSE LET config == JsonLoads(result.output)
            IN  IF config.ok
                THEN [success |-> TRUE, config |-> config.value]
                ELSE [success |-> TRUE, raw_config |-> result.output]
  ELSE ErrorResponse(result)

current_config_response(req, result) ==
  IF result.success
  THEN LET config_files == StrippedLines(Split(result.output, "\n"))
       IN  [success |-> TRUE, config_files |-> config_files,
            count |-> Len(config_files)]
  ELSE ErrorResponse(result)

self_update_response(req, result) ==
  [success |-> result.success, output |-> result.output,
   error |-> IF ~result.success THEN result.error ELSE NONE]

\* Mutant of fmt_config_response: blank lines of the output are dropped.
fmt_config_response_without_blank_lines(req, result) ==
  [success |-> result.success,
   formatted_files |->
     IF result.success /\ result.output # <<>>
     THEN SelectSeq(Split(result.output, "\n"), LAMBDA line : line # <<>>)
     ELSE <<>>,
   error |-> IF ~result.success THEN result.error ELSE NONE]

fmt_config_response(req, result) ==
  [success |-> result.success,
   formatted_files |->
     IF result.success /\ result.output # <<>>
     THEN Split(result.output, "\n") ELSE <<>>,
   error |-> IF ~result.success THEN result.error ELSE NONE]

HandlerResponse(handler, req, result) ==
  CASE handler = "set_env" -> set_env_response(req, result)
    [] handler = "get_env" -> get_env_response(req, result)
    [] handler = "unset_env" -> unset_env_response(req, result)
    [] handler = "task_run" -> task_run_response(req, result)
    [] handler = "task_ls" -> task_ls_response(req, result)
    [] handler = "task_info" -> task_info_response(req, result)
    [] handler = "task_edit" -> task_edit_response(req, result)
    [] handler = "task_deps" -> task_deps_response(req, result)
    [] handler = "get_config" -> get_config_response(req, result)
    [] handler = "current_config" -> current_config_response(req, result)
    [] handler = "self_update" -> self_update_response(req, result)
    [] handler = "fmt_config" -> fmt_config_response(req, result)

\* ------------------------------------------------- executor: pure parts
MisePath == Lit("/usr/local/bin/mise")

\* Mutant of NotFoundResult: the executable-missing result carries the
\* timeout's return code.
NotFoundResultWrongCode ==
  [success |-> FALSE, output |-> <<>>,
   error |-> Lit("mise CLI not found in PATH"), return_code |-> -1]

\* Line 40: shutil.which("mise") found nothing.
NotFoundResult ==
  CommandResult(FALSE, <<>>, Lit("mise CLI not found in PATH"), 1)

\* Lines 47-49: cmd_parts = [mise_path, command]; if args: extend(args)
BuildCmdParts(mise_path, command, args) ==
  <<mise_path, command>> \o (IF args # <<>> THEN args ELSE <<>>)

\* Mutant of PrepareEnvironment: os.environ is updated in place, no copy.
PrepareEnvironmentInPlace(environ, env) ==
  LET merged == IF ~env.none /\ DOMAIN env.vars # {}
                THEN [k \in DOMAIN environ \cup DOMAIN env.vars |->
                        IF k \in DOMAIN env.vars THEN env.vars[k] ELSE environ[k]]
                ELSE environ
  IN  [cmd_env |-> merged, os_environ |-> merged]

\* Lines 52-54: cmd_env = os.environ.copy(); if env: cmd_env.update(env).
\* Gives the child's environment and the hosting environment afterwards.
PrepareEnvironment(environ, env) ==
  [cmd_env |-> IF ~env.none /\ DOMAIN env.vars # {}
               THEN Update(environ, env.vars) ELSE environ,
   os_environ |-> environ]

\* Lines 72-77
TimeoutResult(timeout) ==
  CommandResult(FALSE, <<>>,
    <<"Command timed out after ", FloatStr(timeout), " seconds">>, -1)

\* Mutant of CompletedResult: success does not depend on the exit status.
CompletedResultAlwaysSuccess(returncode, stdout, stderr) ==
  CommandResult(TRUE, Strip(stdout), Strip(stderr),
    IF returncode # 0 THEN returncode ELSE 0)

\* Lines 79-84: decode, strip, `process.returncode or 0`
CompletedResult(returncode, stdout, stderr) ==
  CommandResult(returncode = 0, Strip(stdout), Strip(stderr),
    IF returncode # 0 THEN returncode ELSE 0)

\* Lines 87-92
ExceptionResult(e) ==
  CommandResult(FALSE, <<>>, Lit("Failed to execute command: ") \o e.text, 1)

\* Line 86: `except Exception` catches the subclasses of Exception.
ExceptionClasses ==
  {"PermissionError", "FileNotFoundError", "OSError", "ProcessLookupError",
   "MemoryError"}

\* Mutant of Caught: `except OSError` in place of `except Exception`.
CaughtOSErrorOnly(e) ==
  e.class \in {"PermissionError", "FileNotFoundError", "OSError",
               "ProcessLookupError"}

Caught(e) == e.class \in ExceptionClasses

\* The value of `exc` while nothing was raised.
NoException == [class |-> "", text |-> <<>>]

\* What asyncio.create_subprocess_exec can raise.
SpawnErrors ==
  {[class |-> "PermissionError", text |-> Lit("[Errno 13] Permission denied")],
   [class |-> "FileNotFoundError",
    text |-> Lit("[Errno 2] No such file or directory")]}

\* What process.communicate() can raise while the pipes are read.
CommunicateErrors ==
  {[class |-> "OSError", text |-> Lit("[Errno 5] Input/output error")],
   [class |-> "MemoryError", text |-> <<>>]}

\* process.kill() on a child whose transport is closed: ProcessLookupError().
ProcessLookupError == [class |-> "ProcessLookupError", text |-> <<>>]

\* --------------------------------------------------------- model inputs
IdAlphabet == {"a", "1", ".", "$", "\n"}

RECURSIVE StringsUpTo(_, _)
StringsUpTo(alphabet, n) ==
  IF n = 0 THEN {<<>>}
  ELSE LET shorter == StringsUpTo(alphabet, n - 1)
       IN  shorter \cup {Append(t, ch) : t \in shorter, ch \in alphabet}

Identifiers == StringsUpTo(IdAlphabet, MaxLen)

\* Free-form arguments: absent, empty, or text with shell metacharacters.
FreeTexts == {<<>>, <<"$", ";">>}
OptionalTexts == {NONE} \cup FreeTexts
ArgTexts == {NONE, <<>>, <<"x", " ", " ", "y">>}

\* What a child can write and exit with.
Stdouts == {<<>>,
            <<"a", "=", "1", "\n">>,
            <<"b", " ", "c", "\n", "\n", "d">>,
            <<"{", "}">>,
            <<"n", "a", "m", "e", ":", " ", "z">>}
Stderrs == {<<>>, <<"e", "r", "r", "\n">>}
\* Exit statuses; a negative one is the number of the signal that ended it.
ExitCodes == {0, 1, -1}
SIGKILL == 9

Environments ==
  {[k \in {"PATH", "EDITOR"} |->
      IF k = "PATH" THEN Lit("/usr/bin") ELSE Lit("vi")]}

EmptyRequest ==
  [handler |-> "", key |-> NONE, value |-> NONE, file |-> NONE, task |-> NONE,
   args |-> NONE, cd |-> NONE, editor |-> NONE, hidden |-> FALSE,
   version |-> NONE, force |-> FALSE, path |-> NONE]

\* ----------------------------------------------------------------- state
VARIABLES
  pc,          \* per invocation: where its coroutine stands
  request,     \* per invocation: the handler called and its arguments
  invocation,  \* per invocation: the run_mise_command call the handler made
  locals,      \* per invocation: run_mise_command's local variables
  process,     \* per invocation: the child process it spawned
  result,      \* per invocation: the CommandResult run_mise_command returned
  response,    \* per invocation: the mapping the handler returned
  os_environ   \* os.environ of the hosting process

vars == <<pc, request, invocation, locals, process, result, response,
          os_environ>>

NoInvocation ==
  [count |-> 0, command |-> <<>>, args |-> <<>>, timeout |-> DefaultTimeout,
   env |-> NoEnv]

NoLocals ==
  [mise_path |-> NONE, cmd_parts |-> <<>>, cmd_env |-> <<>>,
   timed_out |-> FALSE, exc |-> NoException, outcome |-> "none"]

NoProcess ==
  [state |-> "none", argv |-> <<>>, env |-> <<>>, returncode |-> 0,
   stdout |-> <<>>, stderr |-> <<>>, spawned |-> 0, kill_sent |-> FALSE]

NoResponse == [pending |-> TRUE]

InitCalls(calls) ==
  /\ pc = [c \in calls |-> "idle"]
  /\ request = [c \in calls |-> EmptyRequest]
  /\ invocation = [c \in calls |-> NoInvocation]
  /\ locals = [c \in calls |-> NoLocals]
  /\ process = [c \in calls |-> NoProcess]
  /\ result = [c \in calls |-> NoResult]
  /\ response = [c \in calls |-> NoResponse]
  /\ os_environ \in Environments

\* The invocations the event loop runs.
Calls == {"call"}

Init == InitCalls(Calls)

\* ------------------------------------------------------- handler entries
\* The part of a handler up to `await run_mise_command(...)`: validate,
\* then either return the error mapping or make the executor call.
Enter(c, req) ==
  /\ request' = [request EXCEPT ![c] = req]
  /\ IF ValidationFails(req.handler, req)
     THEN /\ response' = [response EXCEPT ![c] = ValidationError(req.handler, req)]
          /\ pc' = [pc EXCEPT ![c] = "done"]
          /\ UNCHANGED invocation
     ELSE /\ invocation' = [invocation EXCEPT ![c] =
               [count |-> @.count + 1,
                command |-> <<>>,
                args |-> HandlerArgs(req.handler, req),
                timeout |-> HandlerTimeout(req.handler),
                env |-> HandlerEnv(req.handler, req)]]
          /\ pc' = [pc EXCEPT ![c] = "which"]
          /\ UNCHANGED response
  /\ UNCHANGED <<locals, process, result, os_environ>>

set_env(c) ==
  /\ pc[c] = "idle"
  /\ \E key \in Identifiers, value \in FreeTexts, file \in OptionalTexts :
       Enter(c, [EmptyRequest EXCEPT !.handler = "set_env", !.key = key,
                                     !.value = value, !.file = file])

get_env(c) ==
  /\ pc[c] = "idle"
  /\ \E key \in Identifiers \cup {NONE} :
       Enter(c, [EmptyRequest EXCEPT !.handler = "get_env", !.key = key])

unset_env(c) ==
  /\ pc[c] = "idle"
  /\ \E key \in Identifiers, file \in OptionalTexts :
       Enter(c, [EmptyRequest EXCEPT !.handler = "unset_env", !.key = key,
                                     !.file = file])

task_run(c) ==
  /\ pc[c] = "idle"
  /\ \E task \in Identifiers, args \in ArgTexts, cd \in OptionalTexts :
       Enter(c, [EmptyRequest EXCEPT !.handler = "task_run", !.task = task,
                                     !.args = args, !.cd = cd])

task_ls(c) ==
  /\ pc[c] = "idle"
  /\ \E hidden \in BOOLEAN :
       Enter(c, [EmptyRequest EXCEPT !.handler = "task_ls", !.hidden = hidden])

task_info(c) ==
  /\ pc[c] = "idle"
  /\ \E task \in Identifiers :
       Enter(c, [EmptyRequest EXCEPT !.handler = "task_info", !.task = task])

task_edit(c) ==
  /\ pc[c] = "idle"
  /\ \E task \in Identifiers, editor \in OptionalTexts :
       Enter(c, [EmptyRequest EXCEPT !.handler = "task_edit", !.task = task,
                                     !.editor = editor])

task_deps(c) ==
  /\ pc[c] = "idle"
  /\ \E task \in Identifiers :
       Enter(c, [EmptyRequest EXCEPT !.handler = "task_deps", !.task = task])

get_config(c) ==
  /\ pc[c] = "idle"
  /\ \E key \in Identifiers \cup {NONE} :
       Enter(c, [EmptyRequest EXCEPT !.handler = "get_config", !.key = key])

current_config(c) ==
  /\ pc[c] = "idle"
  /\ Enter(c, [EmptyRequest EXCEPT !.handler = "current_config"])

self_update(c) ==
  /\ pc[c] = "idle"
  /\ \E version \in OptionalTexts, force \in BOOLEAN :
       Enter(c, [EmptyRequest EXCEPT !.handler = "self_update",
                                     !.version = version, !.force = force])

fmt_config(c) ==
  /\ pc[c] = "idle"
  /\ \E path \in OptionalTexts :
       Enter(c, [EmptyRequest EXCEPT !.handler = "fmt_config", !.path = path])

\* ------------------------------------------------ run_mise_command steps
\* `return CommandResult(...)`: the awaiting handler resumes with res.
Return(c, res, outcome) ==
  /\ result' = [result EXCEPT ![c] = res]
  /\ locals' = [locals EXCEPT ![c].outcome = outcome]
  /\ pc' = [pc EXCEPT ![c] = "reshape"]

\* Mutant of Raise: after an exception the child is spawned again.
RaiseRetries(c, e) ==
  /\ locals' = [locals EXCEPT ![c].exc = e]
  /\ pc' = [pc EXCEPT ![c] = "spawn"]
  /\ UNCHANGED result

\* An exception e raised inside the `try` of lines 56-92: the handler of
\* line 86 turns it into a result, or it propagates through the handler,
\* which has no handler of its own.
Raise(c, e) ==
  IF Caught(e)
  THEN /\ result' = [result EXCEPT ![c] = ExceptionResult(e)]
       /\ locals' = [locals EXCEPT ![c].outcome = "exception", ![c].exc = e]
       /\ pc' = [pc EXCEPT ![c] = "reshape"]
  ELSE /\ locals' = [locals EXCEPT ![c].exc = e]
       /\ pc' = [pc EXCEPT ![c] = "raised"]
       /\ UNCHANGED result

\* Lines 38-54: resolve the executable, build the argument vector and the
\* child environment.
ShutilWhich(c) ==
  /\ pc[c] = "which"
  /\ \E found \in BOOLEAN :
       IF ~found
       THEN /\ Return(c, NotFoundResult, "not_found")
            /\ UNCHANGED os_environ
       ELSE LET prepared == PrepareEnvironment(os_environ, invocation[c].env)
            IN  /\ locals' = [locals EXCEPT
                     ![c].mise_path = MisePath,
                     ![c].cmd_parts = BuildCmdParts(MisePath,
                                        invocation[c].command, invocation[c].args),
                     ![c].cmd_env = prepared.cmd_env]
                /\ os_environ' = prepared.os_environ
                /\ pc' = [pc EXCEPT ![c] = "spawn"]
                /\ UNCHANGED result
  /\ UNCHANGED <<request, invocation, process, response>>

\* Lines 57-62: await asyncio.create_subprocess_exec(*cmd_parts, env=cmd_env)
CreateSubprocessExec(c) ==
  /\ pc[c] = "spawn"
  /\ \/ /\ \E e \in SpawnErrors : Raise(c, e)
        /\ UNCHANGED process
     \/ /\ process' = [process EXCEPT ![c] =
             [@ EXCEPT !.state = "running", !.argv = locals[c].cmd_parts,
                       !.env = locals[c].cmd_env, !.spawned = @ + 1]]
        /\ pc' = [pc EXCEPT ![c] = "communicate"]
        /\ UNCHANGED <<locals, result>>
  /\ UNCHANGED <<request, invocation, response, os_environ>>

\* The child ends on its own, with an exit status or by a signal.
ChildExits(c) ==
  /\ process[c].state = "running"
  /\ \E rc \in ExitCodes, out \in Stdouts, err \in Stderrs :
       process' = [process EXCEPT ![c] =
         [@ EXCEPT !.state = "exited", !.returncode = rc,
                   !.stdout = out, !.stderr = err]]
  /\ UNCHANGED <<pc, request, invocation, locals, result, response, os_environ>>

\* The child ends by the SIGKILL that process.kill() sent.
KilledChildExits(c) ==
  /\ process[c].state = "killed"
  /\ process' = [process EXCEPT ![c] =
       [@ EXCEPT !.state = "exited", !.returncode = -SIGKILL]]
  /\ UNCHANGED <<pc, request, invocation, locals, result, response, os_environ>>

\* Lines 65-68 and 79-84: communicate() returned within the timeout.
CommunicateReturns(c) ==
  /\ pc[c] = "communicate"
  /\ process[c].state = "exited"
  /\ Return(c, CompletedResult(process[c].returncode, process[c].stdout,
                               process[c].stderr), "completed")
  /\ UNCHANGED <<request, invocation, process, response, os_environ>>

\* Lines 65-68: communicate() raised while reading the pipes.
CommunicateRaises(c) ==
  /\ pc[c] = "communicate"
  /\ \E e \in CommunicateErrors : Raise(c, e)
  /\ UNCHANGED <<request, invocation, process, response, os_environ>>

\* Line 69: the timer of wait_for fired; communicate() is cancelled and
\* TimeoutError is on its way to the `except` clause.
WaitForTimesOut(c) ==
  /\ pc[c] = "communicate"
  /\ locals' = [locals EXCEPT ![c].timed_out = TRUE]
  /\ pc' = [pc EXCEPT ![c] = "timedout"]
  /\ UNCHANGED <<request, invocation, process, result, response, os_environ>>

\* Mutant of ProcessKill: the timeout handler sends no signal.
ProcessKillSendsNothing(c) ==
  /\ pc[c] = "timedout"
  /\ pc' = [pc EXCEPT ![c] = "waitkill"]
  /\ UNCHANGED <<process, locals, result, request, invocation, response,
                 os_environ>>

\* Mutant of ProcessKill: the timeout of one invocation kills every running
\* child.
ProcessKillEveryChild(c) ==
  /\ pc[c] = "timedout"
  /\ process' = [d \in DOMAIN process |->
       IF process[d].state = "running"
       THEN [process[d] EXCEPT !.state = "killed", !.kill_sent = TRUE]
       ELSE process[d]]
  /\ pc' = [pc EXCEPT ![c] = "waitkill"]
  /\ UNCHANGED <<locals, result, request, invocation, response, os_environ>>

\* Line 70: process.kill().  A running child is sent SIGKILL.  For a child
\* that has exited already, kill() either does nothing (the transport still
\* holds the process) or raises ProcessLookupError (the transport is closed).
ProcessKill(c) ==
  /\ pc[c] = "timedout"
  /\ IF process[c].state = "running"
     THEN /\ process' = [process EXCEPT ![c].state = "killed",
                                        ![c].kill_sent = TRUE]
          /\ pc' = [pc EXCEPT ![c] = "waitkill"]
          /\ UNCHANGED <<locals, result>>
     ELSE /\ \/ /\ pc' = [pc EXCEPT ![c] = "waitkill"]
                /\ UNCHANGED <<locals, result>>
             \/ Raise(c, ProcessLookupError)
          /\ UNCHANGED process
  /\ UNCHANGED <<request, invocation, response, os_environ>>

\* Lines 71-77: await process.wait() returned; the timeout result.
ProcessWaitReturns(c) ==
  /\ pc[c] = "waitkill"
  /\ process[c].state = "exited"
  /\ Return(c, TimeoutResult(invocation[c].timeout), "timeout")
  /\ UNCHANGED <<request, invocation, process, response, os_environ>>

\* The part of a handler after `await run_mise_command(...)`.
HandlerReturns(c) ==
  /\ pc[c] = "reshape"
  /\ response' = [response EXCEPT ![c] =
       HandlerResponse(request[c].handler, request[c], result[c])]
  /\ pc' = [pc EXCEPT ![c] = "done"]
  /\ UNCHANGED <<request, invocation, locals, process, result, os_environ>>

Next ==
  \/ \E c \in Calls : set_env(c)
  \/ \E c \in Calls : get_env(c)
  \/ \E c \in Calls : unset_env(c)
  \/ \E c \in Calls : task_run(c)
  \/ \E c \in Calls : task_ls(c)
  \/ \E c \in Calls : task_info(c)
  \/ \E c \in Calls : task_edit(c)
  \/ \E c \in Calls : task_deps(c)
  \/ \E c \in Calls : get_config(c)
  \/ \E c \in Calls : current_config(c)
  \/ \E c \in Calls : self_update(c)
  \/ \E c \in Calls : fmt_config(c)
  \/ \E c \in Calls : ShutilWhich(c)
  \/ \E c \in Calls : CreateSubprocessExec(c)
  \/ \E c \in Calls : ChildExits(c)
  \/ \E c \in Calls : KilledChildExits(c)
  \/ \E c \in Calls : CommunicateReturns(c)
  \/ \E c \in Calls : CommunicateRaises(c)
  \/ \E c \in Calls : WaitForTimesOut(c)
  \/ \E c \in Calls : ProcessKill(c)
  \/ \E c \in Calls : ProcessWaitReturns(c)
  \/ \E c \in Calls : HandlerReturns(c)

Spec == Init /\ [][Next]_vars

\* ------------------------------------------------------------ properties
\* run_mise_command has returned a CommandResult to the handler of c.
Returned(c) == locals[c].outcome # "none"

IdentifierHandlers ==
  {"set_env", "get_env", "unset_env", "task_run", "task_info", "task_edit",
   "task_deps", "get_config"}

\* The identifier argument of a request, and the rule it is held to.
IdentifierOf(req) ==
  IF req.handler \in {"set_env", "get_env", "unset_env", "get_config"}
  THEN req.key ELSE req.task

IdentifierValid(req) ==
  CASE req.handler \in {"set_env", "get_env", "unset_env"} ->
         validate_env_var_name(IdentifierOf(req))
    [] req.handler = "get_config" -> validate_config_key(IdentifierOf(req))
    [] OTHER -> validate_task_name(IdentifierOf(req))

FieldMessage(req) ==
  CASE req.handler \in {"set_env", "get_env", "unset_env"} ->
         "Invalid environment variable name: "
    [] req.handler = "get_config" -> "Invalid configuration key: "
    [] OTHER -> "Invalid task name: "

\* C1: a handler given, as its identifier, a string that fails the
\* identifier's validation rule (the empty string included) never invokes
\* the executor and returns success=false with a message naming the field.
C1_ValidationShortCircuits ==
  \A c \in Calls :
    (/\ pc[c] # "idle"
     /\ request[c].handler \in IdentifierHandlers
     /\ IdentifierOf(request[c]) # NONE
     /\ ~IdentifierValid(request[c]))
    => /\ invocation[c].count = 0
       /\ pc[c] = "done"
       /\ response[c] = [success |-> FALSE,
                         error |-> Lit(FieldMessage(request[c]))
                                     \o IdentifierOf(request[c])]

\* C2: every CommandResult run_mise_command returns has success true
\* exactly when its return_code is 0 and the call did not time out.
C2_SuccessIffZeroAndNoTimeout ==
  \A c \in Calls :
    Returned(c) =>
      (result[c].success <=>
         (result[c].return_code = 0 /\ ~locals[c].timed_out))

C2_Witness ==
  \E c \in Calls :
    /\ locals[c].outcome = "timeout"
    /\ process[c].state = "exited"
    /\ process[c].returncode = 0
    /\ ~process[c].kill_sent
    /\ ~result[c].success

\* C3: whenever the wait for the child exceeded the timeout, the returned
\* result is success=false, return_code=-1, empty output and the message
\* stating the timeout, whatever the order of timer expiry and child exit.
C3_TimeoutAlwaysReported ==
  \A c \in Calls :
    (Returned(c) /\ locals[c].timed_out) =>
      /\ ~result[c].success
      /\ result[c].return_code = -1
      /\ result[c].output = <<>>
      /\ result[c].error = <<"Command timed out after ",
                             FloatStr(invocation[c].timeout), " seconds">>

\* C4: once run_mise_command has returned, the child it spawned (if any)
\* has exited.
C4_NoChildRunsAfterReturn ==
  \A c \in Calls :
    Returned(c) => process[c].state \in {"none", "exited"}

\* C5: when the executable is not found, the result is success=false,
\* return_code=1, empty output and a descriptive error, and no child
\* process was spawned.
C5_NotFoundSpawnsNothing ==
  \A c \in Calls :
    (Returned(c) /\ locals[c].mise_path = NONE) =>
      /\ ~result[c].success
      /\ result[c].return_code = 1
      /\ result[c].output = <<>>
      /\ result[c].error # <<>>
      /\ process[c].spawned = 0
      /\ process[c].state = "none"

C5_Witness ==
  \E c \in Calls :
    /\ pc[c] = "done"
    /\ locals[c].outcome = "not_found"
    /\ locals[c].mise_path = NONE
    /\ response[c].success = FALSE

C8_ErrorFieldOnlyOnFailure ==
  \A c \in Calls :
    (pc[c] = "done" /\ "error" \in DOMAIN response[c]) => ~response[c].success

\* C8 amended: `error` holds a value other than None only when success is
\* false; for set_env and unset_env, after an executor call, `output` is
\* not None exactly on success and `error` is not None exactly on failure.
C8_ErrorValueOnlyOnFailure ==
  \A c \in Calls :
    pc[c] = "done" =>
      /\ ("error" \in DOMAIN response[c] /\ response[c].error # NONE)
           => ~response[c].success
      /\ (request[c].handler \in {"set_env", "unset_env"} /\ Returned(c)) =>
           /\ (response[c].output # NONE) <=> response[c].success
           /\ (response[c].error # NONE) <=> ~response[c].success

C8_Witness ==
  \E c \in Calls :
    /\ pc[c] = "done"
    /\ request[c].handler = "set_env"
    /\ response[c].success = TRUE
    /\ "error" \in DOMAIN response[c]
    /\ response[c].error = NONE
    /\ process[c].stderr # <<>>

LogicalSubcommands ==
  {Lit("env"), Lit("tasks"), Lit("config"), Lit("self-update"), Lit("fmt")}

\* C9: the child's argument vector is the executable followed by the
\* handler's arguments, with no token for the empty subcommand, so that the
\* token after the executable is the logical subcommand.
C9_NoTokenForEmptySubcommand ==
  \A c \in Calls :
    process[c].spawned > 0 =>
      /\ process[c].argv = <<locals[c].mise_path>> \o invocation[c].args
      /\ process[c].argv[2] \in LogicalSubcommands

\* The extra environment the handler of c passed, as a mapping.
ExtraEnvironment(c) ==
  IF invocation[c].env.none THEN <<>> ELSE invocation[c].env.vars

ChildEnvironmentMerged(c) ==
  /\ process[c].spawned > 0 =>
       /\ DOMAIN process[c].env = DOMAIN os_environ \cup DOMAIN ExtraEnvironment(c)
       /\ \A k \in DOMAIN process[c].env :
            process[c].env[k] = IF k \in DOMAIN ExtraEnvironment(c)
                                THEN ExtraEnvironment(c)[k] ELSE os_environ[k]
  /\ invocation[c].count > 0 =>
       IF request[c].handler = "task_edit" /\ Truthy(request[c].editor)
       THEN /\ ~invocation[c].env.none
            /\ DOMAIN invocation[c].env.vars = {"EDITOR"}
            /\ invocation[c].env.vars["EDITOR"] = request[c].editor
       ELSE invocation[c].env.none

\* C10: the child environment is the hosting environment overridden by the
\* extra environment, no step changes the hosting environment, and only
\* task_edit with an editor passes an extra key, EDITOR.
C10_ChildEnvironment ==
  [][/\ os_environ' = os_environ
     /\ \A c \in Calls : ChildEnvironmentMerged(c)']_vars

C10_Witness ==
  \E c \in Calls :
    /\ process[c].spawned > 0
    /\ request[c].handler = "task_edit"
    /\ process[c].env["EDITOR"] = request[c].editor
    /\ process[c].env["EDITOR"] # os_environ["EDITOR"]
    /\ process[c].env["PATH"] = os_environ["PATH"]

\* C11: every executor invocation made by task_run uses a timeout of 60,
\* every one made by self_update uses 120, and every one made by any other
\* handler uses the default of 30.
C11_HandlerTimeouts ==
  \A c \in Calls :
    invocation[c].count > 0 =>
      invocation[c].timeout =
        CASE request[c].handler = "task_run" -> 60
          [] request[c].handler = "self_update" -> 120
          [] OTHER -> 30

C11_Witness ==
  \E c \in Calls :
    /\ request[c].handler = "self_update"
    /\ invocation[c].count > 0
    /\ locals[c].outcome = "timeout"
    /\ result[c].error = <<"Command timed out after ", "120.0", " seconds">>

\* ---------------------------------------------------------- sanitize_input
\* The characters U+0000 and U+0060, which a string literal here cannot hold.
NullByte == "NUL"
Backtick == "BACKTICK"

\* str.replace(old, new) for a one-character `old`.
RECURSIVE Replace(_, _, _)
Replace(s, old, new) ==
  IF s = <<>> THEN <<>>
  ELSE (IF Head(s) = old THEN new ELSE <<Head(s)>>) \o Replace(Tail(s), old, new)

\* dangerous_chars, in the order the loop visits them.
dangerous_chars ==
  <<Backtick, "$", "&", "|", ";", "<", ">", "(", ")", "{", "}", "[", "]",
    "\"", "'", "\n", "\r">>

\* for char in dangerous_chars: value = value.replace(char, '\\' + char)
RECURSIVE EscapeEach(_, _)
EscapeEach(value, chars) ==
  IF chars = <<>> THEN value
  ELSE EscapeEach(Replace(value, Head(chars), <<"\\", Head(chars)>>),
                  Tail(chars))

\* Mutant of sanitize_input: the backslashes are doubled after the dangerous
\* characters were escaped.
sanitize_input_backslash_last(value) ==
  IF value = NONE THEN <<>>
  ELSE Replace(EscapeEach(Replace(value, NullByte, <<>>), dangerous_chars),
               "\\", <<"\\", "\\">>)

sanitize_input(value) ==
  IF value = NONE THEN <<>>
  ELSE LET no_null == Replace(value, NullByte, <<>>)
           doubled == Replace(no_null, "\\", <<"\\", "\\">>)
       IN  EscapeEach(doubled, dangerous_chars)

\* ------------------------------------- direct calls of the validator module
\* Longest argument given to a validator or to sanitize_input.
MaxArgLen == 4

EnvNameAlphabet == {"a", "Z", "1", "_", "-", "$", "\n"}
TaskNameAlphabet == {"a", "1", "-", ":", ".", " ", ";", "\n"}
ConfigKeyAlphabet == {"a", "1", "-", "_", ".", "$", "\n"}
SanitizeAlphabet == {"a", "\\", NullByte, "$", "'", "\n"}

\* sanitize_input takes Optional[str]; every dangerous character occurs
\* alone and behind a backslash.
SanitizeInputs ==
  {NONE} \cup StringsUpTo(SanitizeAlphabet, MaxArgLen)
         \cup {<<dangerous_chars[i]>> : i \in DOMAIN dangerous_chars}
         \cup {<<"\\", dangerous_chars[i]>> : i \in DOMAIN dangerous_chars}

ValidatorFunctions ==
  {"validate_env_var_name", "validate_task_name", "validate_config_key",
   "sanitize_input"}

ValidatorArguments(f) ==
  CASE f = "validate_env_var_name" -> StringsUpTo(EnvNameAlphabet, MaxArgLen)
    [] f = "validate_task_name" -> StringsUpTo(TaskNameAlphabet, MaxArgLen)
    [] f = "validate_config_key" -> StringsUpTo(ConfigKeyAlphabet, MaxArgLen)
    [] f = "sanitize_input" -> SanitizeInputs

\* The call f(s), its argument in the field that carries the parameter.
ValidatorCall(f, s) ==
  CASE f = "validate_task_name" -> [EmptyRequest EXCEPT !.handler = f, !.task = s]
    [] f = "sanitize_input" -> [EmptyRequest EXCEPT !.handler = f, !.value = s]
    [] OTHER -> [EmptyRequest EXCEPT !.handler = f, !.key = s]

\* A caller holds the argument of one function of utils/validator.py.
InitValidator ==
  /\ pc = [c \in Calls |-> "idle"]
  /\ \E f \in ValidatorFunctions :
       \E s \in ValidatorArguments(f) :
         request = [c \in Calls |-> ValidatorCall(f, s)]
  /\ invocation = [c \in Calls |-> NoInvocation]
  /\ locals = [c \in Calls |-> NoLocals]
  /\ process = [c \in Calls |-> NoProcess]
  /\ result = [c \in Calls |-> NoResult]
  /\ response = [c \in Calls |-> NoResponse]
  /\ os_environ \in Environments

\* The function returns `value` to its caller.
FunctionReturns(c, value) ==
  /\ response' = [response EXCEPT ![c] = [value |-> value]]
  /\ pc' = [pc EXCEPT ![c] = "done"]
  /\ UNCHANGED <<request, invocation, locals, process, result, os_environ>>

CallValidateEnvVarName(c) ==
  /\ pc[c] = "idle"
  /\ request[c].handler = "validate_env_var_name"
  /\ FunctionReturns(c, validate_env_var_name(request[c].key))

CallValidateTaskName(c) ==
  /\ pc[c] = "idle"
  /\ request[c].handler = "validate_task_name"
  /\ FunctionReturns(c, validate_task_name(request[c].task))

CallValidateConfigKey(c) ==
  /\ pc[c] = "idle"
  /\ request[c].handler = "validate_config_key"
  /\ FunctionReturns(c, validate_config_key(request[c].key))

CallSanitizeInput(c) ==
  /\ pc[c] = "idle"
  /\ request[c].handler = "sanitize_input"
  /\ FunctionReturns(c, sanitize_input(request[c].value))

NextValidator ==
  \/ \E c \in Calls : CallValidateEnvVarName(c)
  \/ \E c \in Calls : CallValidateTaskName(c)
  \/ \E c \in Calls : CallValidateConfigKey(c)
  \/ \E c \in Calls : CallSanitizeInput(c)

SpecValidator == InitValidator /\ [][NextValidator]_vars

\* The function `f` of utils/validator.py has returned to caller c.
Called(c, f) == request[c].handler = f /\ pc[c] = "done"

Letters == Lower \cup Upper

\* C12: validate_env_var_name(s) is true if and only if s is non-empty, its
\* first character is an ASCII letter or underscore, and every character of
\* s is an ASCII letter, digit or underscore; it is false for every other
\* string (one holding a newline included).
C12_EnvVarNameRule ==
  \A c \in Calls :
    Called(c, "validate_env_var_name") =>
      LET s == request[c].key
      IN  response[c].value <=>
            /\ Len(s) >= 1
            /\ s[1] \in Letters \cup {"_"}
            /\ \A i \in 1..Len(s) : s[i] \in Letters \cup Digits \cup {"_"}

\* C13: validate_task_name(s) is true if and only if s is non-empty and
\* every character of s is an ASCII alphanumeric, dash, underscore, colon or
\* dot; a string holding any other character at any position is rejected.
C13_TaskNameRule ==
  \A c \in Calls :
    Called(c, "validate_task_name") =>
      LET s == request[c].task
      IN  response[c].value <=>
            /\ Len(s) >= 1
            /\ \A i \in 1..Len(s) :
                 s[i] \in Letters \cup Digits \cup {"-", "_", ":", "."}

\* The positions of the dots of s.
DotPositions(s) == {i \in 1..Len(s) : s[i] = "."}

\* C14: validate_config_key(s) is true if and only if s is one or more
\* non-empty segments of ASCII alphanumerics, dash or underscore joined by
\* single dots: no leading dot, no trailing dot, no two adjacent dots, and
\* no other character anywhere.
C14_ConfigKeyRule ==
  \A c \in Calls :
    Called(c, "validate_config_key") =>
      LET s == request[c].key
      IN  response[c].value <=>
            /\ Len(s) >= 1
            /\ \A i \in 1..Len(s) :
                 s[i] \in Letters \cup Digits \cup {"-", "_", "."}
            /\ 1 \notin DotPositions(s)
            /\ Len(s) \notin DotPositions(s)
            /\ \A i \in DotPositions(s) : i + 1 \notin DotPositions(s)

DangerousSet == {dangerous_chars[i] : i \in DOMAIN dangerous_chars}

\* Length of the run of backslashes that ends just before position i of s.
RECURSIVE BackslashesBefore(_, _)
BackslashesBefore(s, i) ==
  IF i > 1 /\ s[i - 1] = "\\" THEN 1 + BackslashesBefore(s, i - 1) ELSE 0

\* Read s left to right, taking a backslash with the character after it as
\* that character.
RECURSIVE Unescape(_)
Unescape(s) ==
  IF s = <<>> THEN <<>>
  ELSE IF Head(s) = "\\" /\ Len(s) >= 2
       THEN <<s[2]>> \o Unescape(SubSeq(s, 3, Len(s)))
       ELSE <<Head(s)>> \o Unescape(Tail(s))

WithoutNullBytes(s) == SelectSeq(s, LAMBDA ch : ch # NullByte)

\* C15: sanitize_input returns the empty string for None; for every other
\* input the result holds no null byte, every backslash of the input appears
\* doubled (reading the result's escapes back gives the input without its
\* null bytes), and every dangerous character of the result is immediately
\* preceded by an odd number of backslashes.
C15_SanitizeEscapes ==
  \A c \in Calls :
    Called(c, "sanitize_input") =>
      LET value == request[c].value
          out == response[c].value
      IN  IF value = NONE THEN out = <<>>
          ELSE /\ \A i \in 1..Len(out) : out[i] # NullByte
               /\ \A i \in 1..Len(out) :
                    out[i] \in DangerousSet => BackslashesBefore(out, i) % 2 = 1
               /\ \A i \in 1..Len(out) :
                    (out[i] \notin DangerousSet /\ out[i] # "\\")
                      => BackslashesBefore(out, i) % 2 = 0
               /\ BackslashesBefore(out, Len(out) + 1) % 2 = 0
               /\ Unescape(out) = WithoutNullBytes(value)

C15_Witness ==
  \E c \in Calls :
    /\ Called(c, "sanitize_input")
    /\ request[c].value = <<"\\", NullByte, "$", "a">>
    /\ response[c].value = <<"\\", "\\", "\\", "$", "a">>

\* ------------------------------------- handlers that parse the child output
\* Most lines the child writes.
MaxLines == 3

\* Texts of at most n lines drawn from `lines`, each line after a newline.
RECURSIVE TextsOfLines(_, _)
TextsOfLines(lines, n) ==
  IF n = 0 THEN {<<>>}
  ELSE LET shorter == TextsOfLines(lines, n - 1)
       IN  shorter \cup {t \o <<"\n">> \o l : t \in shorter, l \in lines}

EnvLines ==
  {<<>>, <<"a", "=", "1">>, <<"a", "=">>, <<"a">>, <<"b", "=", "1", "=", "2">>,
   <<"=", "x">>}
TaskLines ==
  {<<>>, <<"a">>, <<"a", " ", "b">>, <<" ", "c", " ", " ", "d", " ", "e">>,
   <<"a", "\t", "b", " ">>, <<" ", " ">>}
InfoLines ==
  {<<>>, <<"k", ":", " ", "v">>, <<"n", "a", "m", "e", ":", " ", "z">>,
   <<"R", "a", "w", " ", "O", "u", "t", "p", "u", "t", ":", "x">>,
   <<"z", "z">>, <<" ", "K", " ", "k", " ", ":", "v", ":", "w">>}
JsonAlphabet == {"[", "]", "{", "}", "1", ",", " ", "x"}

\* The handlers that parse, each with what its child can have written.
ParsingHandlers ==
  {"get_env", "task_ls", "task_info", "get_config", "task_deps",
   "current_config"}

ParsingRequest(h) ==
  IF h \in {"task_info", "task_deps"}
  THEN [EmptyRequest EXCEPT !.handler = h, !.task = <<"t">>]
  ELSE [EmptyRequest EXCEPT !.handler = h]

ParsingStdouts(h) ==
  CASE h = "get_env" -> TextsOfLines(EnvLines, MaxLines)
    [] h \in {"task_ls", "task_deps", "current_config"} ->
         TextsOfLines(TaskLines, MaxLines)
    [] h = "task_info" -> TextsOfLines(InfoLines, MaxLines)
    [] h = "get_config" -> StringsUpTo(JsonAlphabet, MaxArgLen)

\* A parsing handler awaits communicate(); its child has ended with exit
\* status 0 after writing `stdout`.
InitParsing ==
  \E h \in ParsingHandlers, environ \in Environments :
   \E stdout \in ParsingStdouts(h) :
    LET req == ParsingRequest(h)
        args == HandlerArgs(req.handler, req)
        env == HandlerEnv(req.handler, req)
        cmd_parts == BuildCmdParts(MisePath, <<>>, args)
        cmd_env == PrepareEnvironment(environ, env).cmd_env
    IN  /\ pc = [c \in Calls |-> "communicate"]
        /\ request = [c \in Calls |-> req]
        /\ invocation = [c \in Calls |->
             [count |-> 1, command |-> <<>>, args |-> args,
              timeout |-> HandlerTimeout(req.handler), env |-> env]]
        /\ locals = [c \in Calls |->
             [NoLocals EXCEPT !.mise_path = MisePath, !.cmd_parts = cmd_parts,
                              !.cmd_env = cmd_env]]
        /\ process = [c \in Calls |->
             [NoProcess EXCEPT !.state = "exited", !.argv = cmd_parts,
                               !.env = cmd_env, !.stdout = stdout,
                               !.spawned = 1]]
        /\ result = [c \in Calls |-> NoResult]
        /\ response = [c \in Calls |-> NoResponse]
        /\ os_environ = environ

NextParsing ==
  \/ \E c \in Calls : CommunicateReturns(c)
  \/ \E c \in Calls : HandlerReturns(c)

SpecParsing == InitParsing /\ [][NextParsing]_vars

\* Handler h has returned its mapping to the caller after an executor success.
Succeeded(c, h) ==
  /\ request[c].handler = h
  /\ pc[c] = "done"
  /\ result[c].success

\* Line j of a text, counting from 1: the characters that have j - 1
\* newlines before them and are no newline themselves.
LineCount(text) == Cardinality({i \in 1..Len(text) : text[i] = "\n"}) + 1

LineAt(text, j) ==
  LET at == {i \in 1..Len(text) :
               /\ text[i] # "\n"
               /\ Cardinality({k \in 1..(i - 1) : text[k] = "\n"}) = j - 1}
  IN  IF at = {} THEN <<>>
      ELSE SubSeq(text, CHOOSE i \in at : \A k \in at : i <= k,
                        CHOOSE i \in at : \A k \in at : i >= k)

\* The lines holding `=`, the text before the first `=` and the text after.
LinesWithEquals(text) ==
  {j \in 1..LineCount(text) : \E i \in 1..Len(LineAt(text, j)) :
                                 LineAt(text, j)[i] = "="}

FirstEquals(line) ==
  CHOOSE i \in 1..Len(line) :
    line[i] = "=" /\ \A k \in 1..(i - 1) : line[k] # "="

BeforeEquals(line) == SubSeq(line, 1, FirstEquals(line) - 1)
AfterEquals(line) == SubSeq(line, FirstEquals(line) + 1, Len(line))

\* C16: get_env() with no key, on executor success, returns success=true
\* and a `variables` mapping built from the output line by line: a line
\* holding `=` is split on its first `=` into key and value, a line without
\* `=` contributes nothing, the last line of a key gives its value, and
\* empty output yields the empty mapping.
C16_VariablesFromLines ==
  \A c \in Calls :
    (Succeeded(c, "get_env") /\ request[c].key = NONE) =>
      LET out == result[c].output
          J == LinesWithEquals(out)
          variables == response[c].variables
      IN  /\ DOMAIN response[c] = {"success", "variables"}
          /\ response[c].success = TRUE
          /\ DOMAIN variables = {BeforeEquals(LineAt(out, j)) : j \in J}
          /\ \A j \in J :
               (\A k \in J : BeforeEquals(LineAt(out, k))
                               = BeforeEquals(LineAt(out, j)) => k <= j)
                 => variables[BeforeEquals(LineAt(out, j))]
                      = AfterEquals(LineAt(out, j))
          /\ out = <<>> => DOMAIN variables = {}

C16_Witness ==
  \E c \in Calls :
    /\ Succeeded(c, "get_env")
    /\ result[c].output = <<"a", "=", "1", "\n", "a", "\n", "a", "=">>
    /\ DOMAIN response[c].variables = {<<"a">>}
    /\ response[c].variables[<<"a">>] = <<>>

IsBlank(line) == \A i \in 1..Len(line) : line[i] \in Whitespace

NonBlankLines(text) ==
  {j \in 1..LineCount(text) : ~IsBlank(LineAt(text, j))}

\* The k-th non-blank line of a text.
NthNonBlank(text, k) ==
  LineAt(text, CHOOSE j \in NonBlankLines(text) :
                 Cardinality({m \in NonBlankLines(text) : m <= j}) = k)

\* The first position from `from` on that holds whitespace (ws) or holds
\* none (~ws); past the end of the line when there is none.
FirstFrom(line, from, ws) ==
  LET at == {i \in from..Len(line) : (line[i] \in Whitespace) <=> ws}
  IN  IF at = {} THEN Len(line) + 1 ELSE CHOOSE i \in at : \A k \in at : i <= k

\* The entry of a line whose name starts at `start`: the name runs to the
\* next whitespace, the description from the first character after that
\* run of whitespace to the end of the line.
EntryFrom(line, start) ==
  LET stop == FirstFrom(line, start, TRUE)
      rest == FirstFrom(line, stop, FALSE)
  IN  IF rest <= Len(line)
      THEN [name |-> SubSeq(line, start, stop - 1),
            description |-> SubSeq(line, rest, Len(line))]
      ELSE [name |-> SubSeq(line, start, stop - 1)]

\* task_ls lists one entry per non-blank line, in order, each entry's name
\* starting at the position NameStart gives for the line.
TaskEntries(c, NameStart(_)) ==
  LET out == result[c].output
      tasks == response[c].tasks
  IN  /\ DOMAIN response[c] = {"success", "tasks", "count"}
      /\ response[c].success = TRUE
      /\ Len(tasks) = Cardinality(NonBlankLines(out))
      /\ response[c].count = Len(tasks)
      /\ \A k \in 1..Len(tasks) :
           /\ tasks[k] = EntryFrom(NthNonBlank(out, k),
                                   NameStart(NthNonBlank(out, k)))
           /\ tasks[k].name # <<>>
      /\ out = <<>> => (tasks = <<>> /\ response[c].count = 0)

LineStart(line) == 1
FirstNonWhitespace(line) == FirstFrom(line, 1, FALSE)

\* C17 (as stated): task_ls, on executor success, returns one entry per
\* non-blank output line in output order; each entry's name is the text
\* before the first run of whitespace of that line and is non-empty, the
\* description is the remainder after that run, present only when there is
\* one; count is the number of entries; empty output gives no entries.
C17_NameBeforeFirstWhitespace ==
  \A c \in Calls : Succeeded(c, "task_ls") => TaskEntries(c, LineStart)

\* C17 (amended): as above, but the name is the first run of
\* non-whitespace characters of the line: whitespace that starts an output
\* line is skipped, the name runs to the next whitespace, and the
\* description is the rest of the line after that whitespace, trailing
\* whitespace included.
C17_NameIsFirstToken ==
  \A c \in Calls : Succeeded(c, "task_ls") => TaskEntries(c, FirstNonWhitespace)

C17_Witness ==
  \E c \in Calls :
    /\ Succeeded(c, "task_ls")
    /\ result[c].output = <<"a", "\n", " ", "c", " ", " ", "d", " ", "e", "\n",
                            "a", "\t", "b">>
    /\ response[c].count = 3
    /\ response[c].tasks[1] = [name |-> <<"a">>]
    /\ response[c].tasks[2] = [name |-> <<"c">>, description |-> <<"d", " ", "e">>]
    /\ response[c].tasks[3] = [name |-> <<"a">>, description |-> <<"b">>]

\* C18: task_info(task), on executor success and for every output text,
\* returns a task_info mapping whose raw_output is the executor's full
\* output and whose name is the requested task; the fields parsed from
\* `key: value` lines never replace these two.
C18_NameAndRawOutputKept ==
  \A c \in Calls :
    Succeeded(c, "task_info") =>
      /\ response[c].success = TRUE
      /\ response[c].task_info[RawOutputKey] = result[c].output
      /\ response[c].task_info[NameKey] = request[c].task

IsTrimOf(t, s) ==
  /\ t # <<>> => (t[1] \notin Whitespace /\ t[Len(t)] \notin Whitespace)
  /\ \E i \in 0..Len(s) :
       /\ i + Len(t) <= Len(s)
       /\ SubSeq(s, i + 1, i + Len(t)) = t
       /\ \A k \in (1..i) \cup ((i + Len(t) + 1)..Len(s)) : s[k] \in Whitespace

\* C20: get_env(key) and get_config(key) with a valid non-empty key, on
\* executor success, return success=true, the requested key, and as value
\* the child's output with only the surrounding whitespace removed: it is
\* not parsed, split or JSON-decoded.
C20_SingleValueVerbatim ==
  \A c \in Calls :
    (/\ request[c].handler \in {"get_env", "get_config"}
     /\ Truthy(request[c].key)
     /\ pc[c] = "done"
     /\ Returned(c)
     /\ result[c].success) =>
      /\ DOMAIN response[c] = {"success", "key", "value"}
      /\ response[c].success = TRUE
      /\ response[c].key = request[c].key
      /\ response[c].value = result[c].output
      /\ IsTrimOf(response[c].value, process[c].stdout)

C20_Witness ==
  \E c \in Calls :
    /\ request[c].handler = "get_config"
    /\ request[c].key = <<"a", "1">>
    /\ pc[c] = "done"
    /\ process[c].stdout = <<"a", "=", "1", "\n">>
    /\ response[c] = [success |-> TRUE, key |-> <<"a", "1">>,
                      value |-> <<"a", "=", "1">>]

\* C21: for every handler call that reached the executor, the response's
\* success is the success of the CommandResult the executor returned, and
\* when that is false the response's error is the CommandResult's error
\* text unchanged: the child's stderr on a non-zero exit, the timeout or
\* the not-found message on those two paths.
C21_ResponseMirrorsResult ==
  \A c \in Calls :
    (pc[c] = "done" /\ Returned(c)) =>
      /\ response[c].success = result[c].success
      /\ ~result[c].success =>
           /\ response[c].error = result[c].error
           /\ locals[c].outcome = "completed" =>
                IsTrimOf(response[c].error, process[c].stderr)
           /\ locals[c].outcome = "timeout" =>
                response[c].error =
                  <<"Command timed out after ",
                    FloatStr(invocation[c].timeout), " seconds">>
           /\ locals[c].outcome = "not_found" =>
                response[c].error = Lit("mise CLI not found in PATH")

C21_Witness ==
  \E c \in Calls :
    /\ pc[c] = "done"
    /\ request[c].handler = "get_env"
    /\ locals[c].outcome = "completed"
    /\ process[c].returncode = 1
    /\ process[c].stderr = <<"e", "r", "r", "\n">>
    /\ response[c] = [success |-> FALSE, error |-> <<"e", "r", "r">>]

\* ------------------------------------------------- concurrent invocations
\* Two invocations of one handler in flight on the event loop.
ConcurrentCalls == {"c1", "c2"}

InitConcurrent == InitCalls(ConcurrentCalls)

NextConcurrent ==
  \/ \E c \in ConcurrentCalls : task_ls(c)
  \/ \E c \in ConcurrentCalls : ShutilWhich(c)
  \/ \E c \in ConcurrentCalls : CreateSubprocessExec(c)
  \/ \E c \in ConcurrentCalls : ChildExits(c)
  \/ \E c \in ConcurrentCalls : KilledChildExits(c)
  \/ \E c \in ConcurrentCalls : CommunicateReturns(c)
  \/ \E c \in ConcurrentCalls : CommunicateRaises(c)
  \/ \E c \in ConcurrentCalls : WaitForTimesOut(c)
  \/ \E c \in ConcurrentCalls : ProcessKill(c)
  \/ \E c \in ConcurrentCalls : ProcessWaitReturns(c)
  \/ \E c \in ConcurrentCalls : HandlerReturns(c)

SpecConcurrent == InitConcurrent /\ [][NextConcurrent]_vars

\* Everything that belongs to invocation c.
OwnState(c) ==
  <<pc[c], request[c], invocation[c], locals[c], process[c], result[c],
    response[c]>>

\* The steps of run_mise_command in invocation c and of its child.
StepOf(c) ==
  \/ ShutilWhich(c) \/ CreateSubprocessExec(c) \/ ChildExits(c)
  \/ KilledChildExits(c) \/ CommunicateReturns(c) \/ CommunicateRaises(c)
  \/ WaitForTimesOut(c) \/ ProcessKill(c) \/ ProcessWaitReturns(c)

\* What the child of c did, as far as its invocation could see it.
ChildSeen(c) ==
  <<locals[c].outcome, locals[c].exc,
    IF locals[c].outcome = "completed"
    THEN <<process[c].returncode, process[c].stdout, process[c].stderr>>
    ELSE <<>>>>

\* An invocation inside run_mise_command can always take a step of its own
\* (it waits for its own child or timer only), and two finished invocations with the same arguments and the same child
\* behaviour hold the same result and response.
IndependentInvocations ==
  /\ \A c \in ConcurrentCalls :
       pc[c] \in {"which", "spawn", "communicate", "timedout", "waitkill"}
         => ENABLED StepOf(c)
  /\ \A c, d \in ConcurrentCalls :
       (/\ pc[c] = "done" /\ pc[d] = "done"
        /\ request[c] = request[d]
        /\ ChildSeen(c) = ChildSeen(d)) =>
         (result[c] = result[d] /\ response[c] = response[d])

\* A step changes the state of one invocation only, never os.environ, and
\* never a result or response already returned.
IsolatedStep ==
  /\ os_environ' = os_environ
  /\ \A c, d \in ConcurrentCalls :
       (c # d /\ OwnState(c)' # OwnState(c)) => OwnState(d)' = OwnState(d)
  /\ \A c \in ConcurrentCalls :
       /\ result[c] # NoResult => result[c]' = result[c]
       /\ response[c] # NoResponse => response[c]' = response[c]

\* C22: for concurrent invocations and any interleaving of their spawn,
\* child-exit and timeout events, each invocation returns one result
\* determined by its own arguments and its own child; a timeout in one
\* invocation kills that invocation's child only, no invocation waits for
\* or observes another, and several children can be alive together.
C22_InvocationsIndependent ==
  []IndependentInvocations /\ [][IsolatedStep]_vars

C22_Witness ==
  /\ process["c1"].kill_sent
  /\ process["c1"].state = "exited"
  /\ pc["c1"] = "done"
  /\ process["c2"].state = "running"
  /\ ~process["c2"].kill_sent

\* ------------------------------------------------------------- progress
\* The event loop runs every coroutine that can run, the timer of wait_for
\* fires, and a child that was sent SIGKILL exits.  A child left alone may
\* run for ever.
Fairness ==
  \A c \in Calls :
    /\ WF_vars(ShutilWhich(c))
    /\ WF_vars(CreateSubprocessExec(c))
    /\ WF_vars(CommunicateReturns(c))
    /\ WF_vars(WaitForTimesOut(c))
    /\ WF_vars(ProcessKill(c))
    /\ WF_vars(KilledChildExits(c))
    /\ WF_vars(ProcessWaitReturns(c))

FairSpec == Spec /\ Fairness

ListedLines(c) ==
  IF request[c].handler = "task_deps"
  THEN response[c].dependencies ELSE response[c].config_files

\* C25: task_deps and current_config, on executor success, return the
\* output's non-blank lines, each trimmed of surrounding whitespace and in
\* output order; count is the length of that list and no entry is empty.
C25_TrimmedNonBlankLines ==
  \A c \in Calls :
    (Succeeded(c, "task_deps") \/ Succeeded(c, "current_config")) =>
      LET out == result[c].output
      IN  /\ response[c].success = TRUE
          /\ DOMAIN response[c] =
               IF request[c].handler = "task_deps"
               THEN {"success", "task", "dependencies", "count"}
               ELSE {"success", "config_files", "count"}
          /\ Len(ListedLines(c)) = Cardinality(NonBlankLines(out))
          /\ response[c].count = Len(ListedLines(c))
          /\ \A k \in 1..Len(ListedLines(c)) :
               /\ ListedLines(c)[k] # <<>>
               /\ IsTrimOf(ListedLines(c)[k], NthNonBlank(out, k))

C25_Witness ==
  \E c \in Calls :
    /\ Succeeded(c, "task_deps")
    /\ result[c].output = <<"a", " ", "b", "\n", " ", " ", "\n",
                            " ", "c", " ", " ", "d", " ", "e">>
    /\ response[c].dependencies = <<<<"a", " ", "b">>,
                                    <<"c", " ", " ", "d", " ", "e">>>>
    /\ response[c].count = 2


\* C26: fmt_config returns formatted_files = [] when the executor failed
\* or its output is empty, and otherwise one entry per line of the output,
\* in order (a blank line gives an empty entry); its arguments are "fmt",
\* followed by path only when a path was given.
C26_FormattedFilesAreOutputLines ==
  \A c \in Calls :
    request[c].handler = "fmt_config" =>
      /\ invocation[c].count > 0 =>
           /\ invocation[c].args \in
                {<<Lit("fmt")>>, <<Lit("fmt"), request[c].path>>}
           /\ Len(invocation[c].args) = 2 => request[c].path # NONE
           /\ request[c].path \notin {NONE, <<>>} =>
                Len(invocation[c].args) = 2
      /\ (pc[c] = "done" /\ Returned(c)) =>
           LET out == result[c].output
               files == response[c].formatted_files
           IN  IF ~result[c].success \/ out = <<>>
               THEN files = <<>>
               ELSE /\ Len(files) = LineCount(out)
                    /\ \A j \in 1..Len(files) : files[j] = LineAt(out, j)

C26_Witness ==
  \E c \in Calls :
    /\ request[c].handler = "fmt_config"
    /\ pc[c] = "done"
    /\ request[c].path = <<"$", ";">>
    /\ invocation[c].args = <<Lit("fmt"), <<"$", ";">>>>
    /\ response[c].success
    /\ response[c].formatted_files = <<<<"b", " ", "c">>, <<>>, <<"d">>>>


\* The positions where a whitespace-separated token of a text starts, and
\* the k-th token: the longest whitespace-free run from the k-th start.
TokenStarts(s) ==
  IF s = NONE THEN {}
  ELSE {i \in 1..Len(s) :
          s[i] \notin Whitespace /\ (i = 1 \/ s[i - 1] \in Whitespace)}

NthToken(s, k) ==
  LET start == CHOOSE i \in TokenStarts(s) :
                 Cardinality({m \in TokenStarts(s) : m <= i}) = k
      stop == CHOOSE j \in start..Len(s) :
                /\ \A m \in start..j : s[m] \notin Whitespace
                /\ (j = Len(s) \/ s[j + 1] \in Whitespace)
  IN  SubSeq(s, start, stop)

\* C27: the arguments of task_run are "tasks", "run", then "--cd" and cd
\* when cd is given, then the task name, then every whitespace-separated
\* token of args once and in order; the response always carries the
\* executor's output and return_code.
C27_TaskRunArgumentOrder ==
  \A c \in Calls :
    request[c].handler = "task_run" =>
      /\ invocation[c].count > 0 =>
           LET a == invocation[c].args
               req == request[c]
               pre == IF req.cd \notin {NONE, <<>>} THEN 4 ELSE 2
               n == Cardinality(TokenStarts(req.args))
           IN  /\ Len(a) = pre + 1 + n
               /\ a[1] = Lit("tasks") /\ a[2] = Lit("run")
               /\ pre = 4 => (a[3] = Lit("--cd") /\ a[4] = req.cd)
               /\ a[pre + 1] = req.task
               /\ \A k \in 1..n : a[pre + 1 + k] = NthToken(req.args, k)
      /\ (pc[c] = "done" /\ Returned(c)) =>
           /\ DOMAIN response[c] =
                {"success", "task", "output", "error", "return_code"}
           /\ response[c].task = request[c].task
           /\ response[c].output = result[c].output
           /\ response[c].return_code = result[c].return_code

C27_Witness ==
  \E c \in Calls :
    /\ request[c].handler = "task_run"
    /\ pc[c] = "done"
    /\ request[c].args = <<"x", " ", " ", "y">>
    /\ request[c].cd = <<"$", ";">>
    /\ invocation[c].args =
         <<Lit("tasks"), Lit("run"), Lit("--cd"), <<"$", ";">>,
           request[c].task, <<"x">>, <<"y">>>>
    /\ ~response[c].success
    /\ response[c].output = <<"a", "=", "1">>
    /\ response[c].return_code = 1


\* C28: a returned Command Result carries return_code = -1 only when the
\* call timed out; a child that completed within the timeout, whatever
\* its exit status, gives a return_code other than -1.
C28_MinusOneOnlyOnTimeout ==
  \A c \in Calls :
    (Returned(c) /\ result[c].return_code = -1) =>
      locals[c].outcome = "timeout"


\* The handlers that take free-form arguments, and those arguments.
FreeFormHandlers ==
  {"set_env", "unset_env", "task_run", "task_edit", "self_update",
   "fmt_config"}

FreeFormValues(req) ==
  CASE req.handler = "set_env" -> {req.value, req.file}
    [] req.handler = "unset_env" -> {req.file}
    [] req.handler = "task_run" -> {req.cd, req.args}
    [] req.handler = "task_edit" -> {req.editor}
    [] req.handler = "self_update" -> {req.version}
    [] req.handler = "fmt_config" -> {req.path}
    [] OTHER -> {}

\* A value is handed to the executor as it is: as one element of the
\* argument list or as a value of the environment mapping.
ReachesExecutor(c, v) ==
  \/ \E i \in 1..Len(invocation[c].args) : invocation[c].args[i] = v
  \/ /\ ~invocation[c].env.none
     /\ \E k \in DOMAIN invocation[c].env.vars : invocation[c].env.vars[k] = v

\* set_env and unset_env echo key and value as they were given.
EchoesIdentifier(c) ==
  (pc[c] = "done" /\ Returned(c)
     /\ request[c].handler \in {"set_env", "unset_env"}) =>
    /\ response[c].key = request[c].key
    /\ request[c].handler = "set_env" => response[c].value = request[c].value

\* C29 as stated: every free-form argument that is a string reaches the
\* executor's argument list or environment character for character
\* unchanged, and set_env/unset_env echo key and value unchanged.
C29_FreeFormReachesUnchanged ==
  \A c \in Calls :
    /\ invocation[c].count > 0 =>
         \A v \in FreeFormValues(request[c]) :
           v # NONE => ReachesExecutor(c, v)
    /\ EchoesIdentifier(c)

\* C29, amended: a handler with a valid identifier invokes the executor
\* whatever its free-form arguments hold; a non-empty file, cd, version,
\* path or editor and any set_env value reach the argument list or the
\* environment unchanged at their place; an empty or absent file, cd,
\* version, path or editor is left out; task_run args reaches the list as
\* its whitespace-separated tokens, each unchanged; set_env and unset_env
\* echo key and value unchanged.
C29_FreeFormNonEmptyUnchanged ==
  \A c \in Calls :
    LET req == request[c]
        a == invocation[c].args
        given(v) == v \notin {NONE, <<>>}
    IN  /\ (pc[c] # "idle" /\ req.handler \in FreeFormHandlers
              /\ (req.handler \in IdentifierHandlers => IdentifierValid(req)))
             => invocation[c].count = 1
        /\ (invocation[c].count > 0 /\ req.handler \in FreeFormHandlers) =>
             /\ req.handler \in {"set_env", "unset_env"} =>
                  LET n == IF req.handler = "set_env" THEN 2 ELSE 1
                  IN  /\ Len(a) = 2 + n + (IF given(req.file) THEN 2 ELSE 0)
                      /\ given(req.file) =>
                           (a[3] = Lit("--file") /\ a[4] = req.file)
                      /\ a[Len(a) - n + 1] = req.key
                      /\ req.handler = "set_env" => a[Len(a)] = req.value
             /\ req.handler = "task_run" =>
                  LET pre == IF given(req.cd) THEN 4 ELSE 2
                      n == Cardinality(TokenStarts(req.args))
                  IN  /\ Len(a) = pre + 1 + n
                      /\ given(req.cd) =>
                           (a[3] = Lit("--cd") /\ a[4] = req.cd)
                      /\ \A k \in 1..n : a[pre + 1 + k] = NthToken(req.args, k)
             /\ req.handler = "task_edit" =>
                  IF given(req.editor)
                  THEN /\ ~invocation[c].env.none
                       /\ DOMAIN invocation[c].env.vars = {"EDITOR"}
                       /\ invocation[c].env.vars["EDITOR"] = req.editor
                  ELSE invocation[c].env.none
             /\ req.handler = "self_update" =>
                  /\ Len(a) = 1 + (IF given(req.version) THEN 1 ELSE 0)
                                + (IF req.force THEN 1 ELSE 0)
                  /\ given(req.version) => a[2] = req.version
             /\ req.handler = "fmt_config" =>
                  /\ Len(a) = 1 + (IF given(req.path) THEN 1 ELSE 0)
                  /\ given(req.path) => a[2] = req.path
        /\ EchoesIdentifier(c)

C29_Witness ==
  \E c \in Calls :
    /\ pc[c] = "done"
    /\ Returned(c)
    /\ request[c].handler = "set_env"
    /\ request[c].value = <<"$", ";">>
    /\ request[c].file = <<>>
    /\ invocation[c].args =
         <<Lit("env"), Lit("set"), request[c].key, <<"$", ";">>>>
    /\ response[c].value = <<"$", ";">>


\* ------------------------------------------------- external cancellation
\* The event loop cancels the task that awaits run_mise_command:
\* asyncio.CancelledError, a BaseException and no subclass of Exception,
\* is raised at the pending await.
CancelledError == [class |-> "CancelledError", text |-> <<>>]

\* Lines 65-68 and 71: the awaits during which a child exists.  The
\* exception passes `except asyncio.TimeoutError` and `except Exception`;
\* no statement of run_mise_command runs after it.
Cancel(c) ==
  /\ pc[c] \in {"communicate", "waitkill"}
  /\ Raise(c, CancelledError)
  /\ UNCHANGED <<request, invocation, process, response, os_environ>>

NextCancellable ==
  \/ Next
  \/ \E c \in Calls : Cancel(c)

SpecCancellable == Init /\ [][NextCancellable]_vars

\* C30: when the awaiting invocation was cancelled from outside, its child
\* is not left running: it was killed, as on timeout, or had ended.
C30_CancelledChildIsKilled ==
  \A c \in Calls :
    (pc[c] = "raised" /\ locals[c].exc = CancelledError) =>
      process[c].state # "running"

====
